---- MODULE Spec2Model ----
(***************************************************************************)
(* smart_navigation_osm.py: a Flask service that lazily downloads an OSM   *)
(* drive graph into the global G under graph_lock (load_graph) and answers *)
(* /route queries (route_api) with a shortest path by edge length.         *)
(*                                                                         *)
(* Threads: one thread per /route request plus the start-up warm-up thread *)
(* (lines 191-193), all sharing G and graph_lock.                          *)
(***************************************************************************)
EXTENDS Integers, Sequences, FiniteSets, TLC

\* ---------------------------------------------------------------- bounds
NumRequests == 2      \* concurrent /route requests (one thread each)
NumNodes == 3         \* nodes of the graphs of the routing family
MaxEdges == 2         \* edges of the graphs of the routing family
MaxStrLen == 3        \* length of the query strings of the parsing family

\* ------------------------------------------------------ program constants
MAX_GRAPH_NODES == 200000
\* DEFAULT_SPEED_MPS = 13.89 as the exact fraction SPEED_NUM / SPEED_DEN
SPEED_NUM == 1389
SPEED_DEN == 100
HTTP_OK == 200
HTTP_BAD_REQUEST == 400
HTTP_NOT_FOUND == 404
HTTP_INTERNAL == 500

\* ----------------------------------------------------------------- threads
WarmupThread == 0
RequestThreads == 1 .. NumRequests
Threads == {WarmupThread} \cup RequestThreads

\* G = None: no graph
None == [id |-> 0, stage |-> "none", nodes |-> {}, edges |-> {}, more |-> 0]

\* ------------------------------------------------------------ query strings
\* A string is a sequence of characters; "" (also a missing parameter,
\* request.args.get(name, "")) is the empty sequence.
Digits == {"0", "1"}
Chars == Digits \cup {",", " ", "x"}

RECURSIVE StringsUpTo(_)
StringsUpTo(n) ==
    IF n = 0 THEN {<< >>}
    ELSE LET S == StringsUpTo(n - 1)
         IN  S \cup {Append(s, c) : s \in {x \in S : Len(x) = n - 1}, c \in Chars}

\* str.split(","): the pieces between the commas, at least one piece
RECURSIVE SplitFrom(_, _, _)
SplitFrom(s, i, piece) ==
    IF i > Len(s) THEN << piece >>
    ELSE IF s[i] = "," THEN << piece >> \o SplitFrom(s, i + 1, << >>)
    ELSE SplitFrom(s, i + 1, Append(piece, s[i]))

Split(s) == SplitFrom(s, 1, << >>)

\* str.strip(): without the leading and trailing blanks
RECURSIVE LStrip(_)
LStrip(s) == IF s # << >> /\ Head(s) = " " THEN LStrip(Tail(s)) ELSE s

RECURSIVE RStrip(_)
RStrip(s) ==
    IF s # << >> /\ s[Len(s)] = " " THEN RStrip(SubSeq(s, 1, Len(s) - 1)) ELSE s

Strip(s) == RStrip(LStrip(s))

\* a float() that also took the empty string
IsFloatOrEmpty(p) == \A i \in 1 .. Len(p) : p[i] \in Digits

\* float(x) succeeds on a non-empty run of digits (of this alphabet)
IsFloat(p) == p # << >> /\ \A i \in 1 .. Len(p) : p[i] \in Digits

RECURSIVE FloatVal(_)
FloatVal(p) ==
    IF p = << >> THEN 0
    ELSE 10 * FloatVal(SubSeq(p, 1, Len(p) - 1)) + (IF p[Len(p)] = "1" THEN 1 ELSE 0)

\* lines 163-164: a, b = [float(x.strip()) for x in s.split(",")]
\* the comprehension raises on a piece that is no float, the unpacking on a
\* list that has not exactly two items
ParsePair(s) ==
    LET pieces == Split(s)
    IN  IF \E i \in 1 .. Len(pieces) : ~IsFloat(Strip(pieces[i])) THEN [ok |-> FALSE, lat |-> 0, lon |-> 0]
        ELSE IF Len(pieces) # 2 THEN [ok |-> FALSE, lat |-> 0, lon |-> 0]
        ELSE [ok |-> TRUE, lat |-> FloatVal(Strip(pieces[1])), lon |-> FloatVal(Strip(pieces[2]))]

\* ------------------------------------------------------------------ graphs
\* A graph as the provider returns it: OSM nodes (an OSM node id fixes its
\* coordinates), directed edges with a length in meters (parallel edges
\* allowed), and `more`, the count of the nodes of the download that lie
\* away from every query and are not modelled one by one:
\* len(G.nodes) = Cardinality(nodes) + more.
\* G adds id (the build attempt that made the instance) and stage:
\* "downloaded" after graph_from_point, "lengths" after add_edge_lengths.
Pos(n) ==
    CASE n = 1 -> [y |-> 0, x |-> 0]
      [] n = 2 -> [y |-> 0, x |-> 1]
      [] n = 3 -> [y |-> 1, x |-> 1]
      [] n = 4 -> [y |-> 1, x |-> 0]
      [] OTHER -> [y |-> 0, x |-> n - 3]

Weights == {1, 2}

Edge(u, v, l) == [u |-> u, v |-> v, length |-> l]

\* section 8's scenario: A(0,0) B(0,1) C(1,1) D(1,0), A-B 1, B-C 1, C-D 1, A-D 5
ExampleGraph ==
    [nodes |-> 1 .. 4,
     edges |-> {Edge(1, 2, 1), Edge(2, 1, 1), Edge(2, 3, 1), Edge(3, 2, 1),
                Edge(3, 4, 1), Edge(4, 3, 1), Edge(1, 4, 5), Edge(4, 1, 5)},
     more |-> 0]

\* two components: {1, 2} and {3, 4}
SplitGraph ==
    [nodes |-> 1 .. 4,
     edges |-> {Edge(1, 2, 1), Edge(2, 1, 1), Edge(3, 4, 1), Edge(4, 3, 1)},
     more |-> 0]

\* two routes of equal length from 1 to 3: by 2 and by 4
DiamondGraph ==
    [nodes |-> 1 .. 4,
     edges |-> {Edge(1, 2, 1), Edge(2, 3, 1), Edge(1, 4, 1), Edge(4, 3, 1), Edge(1, 3, 3)},
     more |-> 0]

\* a download with more nodes than MAX_GRAPH_NODES
OversizedGraph ==
    [nodes |-> 1 .. 2,
     edges |-> {Edge(1, 2, 1), Edge(2, 1, 1)},
     more |-> MAX_GRAPH_NODES]

NodeCount(g) == Cardinality(g.nodes) + g.more

RECURSIVE SetsUpTo(_, _)
SetsUpTo(S, k) ==
    IF k = 0 THEN {{}}
    ELSE LET T == SetsUpTo(S, k - 1)
         IN  T \cup {t \cup {e} : t \in T, e \in S}

EdgeOptions ==
    {Edge(u, v, l) : u \in 1 .. NumNodes, v \in 1 .. NumNodes, l \in Weights} \
    {Edge(u, u, l) : u \in 1 .. NumNodes, l \in Weights}

\* what the provider may return to a routing query: every graph on
\* 1..NumNodes with at most MaxEdges edges, and the scenario graphs
RouteGraphs ==
    {[nodes |-> 1 .. NumNodes, edges |-> E, more |-> 0] : E \in SetsUpTo(EdgeOptions, MaxEdges)}
    \cup {ExampleGraph, SplitGraph, DiamondGraph}

\* what the provider may return in the concurrent runs
ProviderGraphs == {SplitGraph, OversizedGraph}

\* ---------------------------------------------------------------- networkx
MinOf(S) == CHOOSE m \in S : \A n \in S : m <= n

\* the weight left out: every edge counts 1
CostsUnweighted(g, u, v) == {1 : e \in {d \in g.edges : d.u = u /\ d.v = v}}

\* the weight function of weight="length" on a multigraph: the least
\* data.get("length", 1) over the parallel edges u -> v
Costs(g, u, v) ==
    {IF g.stage = "lengths" THEN e.length ELSE 1 : e \in {d \in g.edges : d.u = u /\ d.v = v}}

HasEdge(g, u, v) == Costs(g, u, v) # {}
Cost(g, u, v) == MinOf(Costs(g, u, v))

\* Dijkstra from s: dist maps the settled nodes to their distance, seen the
\* discovered nodes to their tentative distance
RECURSIVE DijkstraLoop(_, _, _)
DijkstraLoop(g, dist, seen) ==
    LET fringe == DOMAIN seen \ DOMAIN dist
    IN  IF fringe = {} THEN dist
        ELSE LET v == CHOOSE n \in fringe : \A m \in fringe : seen[n] <= seen[m]
                 dist2 == [n \in DOMAIN dist \cup {v} |-> IF n = v THEN seen[v] ELSE dist[n]]
                 succ == {u \in g.nodes \ DOMAIN dist2 : HasEdge(g, v, u)}
                 better == {u \in succ : u \notin DOMAIN seen \/ seen[v] + Cost(g, v, u) < seen[u]}
                 seen2 == [n \in DOMAIN seen \cup better |->
                              IF n \in better THEN seen[v] + Cost(g, v, n) ELSE seen[n]]
             IN  DijkstraLoop(g, dist2, seen2)

Dijkstra(g, s) == DijkstraLoop(g, << >>, [n \in {s} |-> 0])

\* the paths Dijkstra's predecessors give from s to u; which one of several
\* of equal length is returned depends on the library's traversal order
RECURSIVE PathsTo(_, _, _, _)
PathsTo(g, dist, s, u) ==
    IF u = s THEN {<< s >>}
    ELSE UNION {{Append(p, u) : p \in PathsTo(g, dist, s, v)} :
                v \in {w \in DOMAIN dist : HasEdge(g, w, u) /\ dist[w] + Cost(g, w, u) = dist[u]}}

HasPath(g, s, t) == t \in DOMAIN Dijkstra(g, s)

\* nx.shortest_path(G, s, t, weight="length"): the candidates
ShortestPaths(g, s, t) == PathsTo(g, Dijkstra(g, s), s, t)

\* nx.shortest_path_length(G, s, t, weight="length")
ShortestPathLength(g, s, t) == Dijkstra(g, s)[t]

\* ox.distance.nearest_nodes(G, X=lon, Y=lat): the nodes at the least
\* distance from the point; the index's choice among several is not fixed
Dist2(n, lat, lon) ==
    (Pos(n).y - lat) * (Pos(n).y - lat) + (Pos(n).x - lon) * (Pos(n).x - lon)

NearestNodes(g, lat, lon) ==
    {n \in g.nodes : \A m \in g.nodes : Dist2(n, lat, lon) <= Dist2(m, lat, lon)}

\* ------------------------------------------------------------- route helpers
\* exact fractions for the float results
Frac(n, d) == [num |-> n, den |-> d]

\* the speed multiplied instead of divided by
compute_eta_seconds_times(distance_meters) ==
    IF distance_meters <= 0 THEN Frac(0, 1)
    ELSE Frac(distance_meters * SPEED_NUM, SPEED_DEN)

\* lines 72-76
compute_eta_seconds(distance_meters) ==
    IF distance_meters <= 0 THEN Frac(0, 1)
    ELSE Frac(distance_meters * SPEED_DEN, SPEED_NUM)

\* lines 59-66: [lat, lon] of every node of the route, in order
route_coords_from_nodes(g, route) ==
    [i \in 1 .. Len(route) |-> << Pos(route[i]).y, Pos(route[i]).x >>]

NoResp == [status |-> 0, error |-> "", distance_km |-> Frac(0, 1), eta_min |-> Frac(0, 1), route_coords |-> << >>]

ErrorResp(code, msg) == [NoResp EXCEPT !.status = code, !.error = msg]

\* NetworkXNoPath caught by the general handler of line 185
NoPathAsInternal == ErrorResp(HTTP_INTERNAL, "no path found between those points (not connected in graph)")

\* lines 183-184
NoPathResp == ErrorResp(HTTP_NOT_FOUND, "no path found between those points (not connected in graph)")

\* lines 178-182
OkResp(total, eta, coords) ==
    [status |-> HTTP_OK, error |-> "", distance_km |-> Frac(total, 1000),
     eta_min |-> Frac(eta.num, eta.den * 60), route_coords |-> coords]

\* =================================================================== state
VARIABLES
    G,            \* the global cached graph (line 28), None while empty
    graph_lock,   \* threading.Lock (line 29): the set of its holders
    thread,       \* per thread: its position and the locals of its frames
    nbuilds,      \* history: the build attempts started so far
    failed,       \* history: the build attempts that raised
    returned      \* history: the graph instances load_graph has returned

vars == << G, graph_lock, thread, nbuilds, failed, returned >>

NoArgs == [s_lat |-> 0, s_lon |-> 0, e_lat |-> 0, e_lon |-> 0]

Fresh(pc0) ==
    [pc |-> pc0,               \* where the thread is
     site |-> "",              \* the caller a running load_graph returns to
     req |-> [start |-> << >>, end |-> << >>],   \* request.args
     args |-> NoArgs,          \* s_lat, s_lon, e_lat, e_lon (lines 163-164)
     Glocal |-> None,          \* route_api's Glocal (line 169)
     Gcallee |-> None,         \* the Glocal of nearest_node (line 47)
     src |-> 0, tgt |-> 0,     \* lines 170-171
     route_nodes |-> << >>,    \* line 173
     total_m |-> 0,            \* line 175
     resp |-> NoResp,          \* the HTTP response
     ncalls |-> 0,             \* history: load_graph calls made
     cause |-> "",             \* history: why the request failed
     builtAtCall |-> FALSE]    \* history: G was built when the running call began

InitOf(T) ==
    /\ G = None
    /\ graph_lock = {}
    /\ thread = [t \in Threads |-> IF t \in T THEN Fresh("start") ELSE Fresh("off")]
    /\ nbuilds = 0
    /\ failed = {}
    /\ returned = {}

\* a frame calls load_graph() from `site`
Call(f, site) ==
    [f EXCEPT !.pc = "lg_acquire", !.site = site, !.ncalls = @ + 1,
              !.builtAtCall = (G # None /\ G.stage = "lengths")]

\* the request ends with an error response
Fail(f, response, cause) ==
    [f EXCEPT !.pc = "done", !.resp = response, !.cause = cause]

\* ---------------------------------------------------------------- actions
\* A thread starts on its target: load_graph for the warm-up thread (line
\* 191), route_api with the request's query parameters for the others.
Start(t, starts, ends) ==
    /\ thread[t].pc = "start"
    /\ IF t = WarmupThread
       THEN thread' = [thread EXCEPT ![t] = Call(@, "warmup")]
       ELSE \E s \in starts, e \in ends :
                thread' = [thread EXCEPT ![t].pc = "route_api",
                                         ![t].req = [start |-> s, end |-> e]]
    /\ UNCHANGED << G, graph_lock, nbuilds, failed, returned >>

\* lines 158-169: reject what is missing or does not parse, else go on to
\* load_graph()
ValidateArgs(t) ==
    /\ thread[t].pc = "route_api"
    /\ LET start == thread[t].req.start
           end == thread[t].req.end
           s == ParsePair(start)
           e == ParsePair(end)
       IN  thread' = [thread EXCEPT ![t] =
               IF start = << >> \/ end = << >>
               THEN Fail(@, ErrorResp(HTTP_BAD_REQUEST, "send start and end query params like start=lat,lon"), "invalid_input")
               ELSE IF ~s.ok \/ ~e.ok
               THEN Fail(@, ErrorResp(HTTP_BAD_REQUEST, "invalid coordinate format"), "invalid_input")
               ELSE Call([@ EXCEPT !.args = [s_lat |-> s.lat, s_lon |-> s.lon,
                                             e_lat |-> e.lat, e_lon |-> e.lon]],
                         "route_api")]
    /\ UNCHANGED << G, graph_lock, nbuilds, failed, returned >>

\* line 35 without the lock: the thread goes on whoever holds it
AcquireUnlocked(t) ==
    /\ thread[t].pc = "lg_acquire"
    /\ graph_lock' = {t}
    /\ IF G = None
       THEN /\ thread' = [thread EXCEPT ![t].pc = "lg_download"]
            /\ nbuilds' = nbuilds + 1
       ELSE /\ thread' = [thread EXCEPT ![t].pc = "lg_return"]
            /\ nbuilds' = nbuilds
    /\ UNCHANGED << G, failed, returned >>

\* lines 35-36: with graph_lock (blocks while another thread holds it), then
\* the test of G: a build attempt starts when G is None
Acquire(t) ==
    /\ thread[t].pc = "lg_acquire"
    /\ graph_lock = {}
    /\ graph_lock' = {t}
    /\ IF G = None
       THEN /\ thread' = [thread EXCEPT ![t].pc = "lg_download"]
            /\ nbuilds' = nbuilds + 1
       ELSE /\ thread' = [thread EXCEPT ![t].pc = "lg_return"]
            /\ nbuilds' = nbuilds
    /\ UNCHANGED << G, failed, returned >>

\* an acquire() with no release on the way out of an exception
LockKeptAfterRaise(t) == {t}

\* line 35: the with statement releases graph_lock when an exception leaves it
LockAfterRaise(t) == {}

\* an exception leaves load_graph: the warm-up thread dies of it, route_api
\* answers 500 with str(ex) (line 185)
Raised(f, msg, cause) ==
    IF f.site = "warmup" THEN [f EXCEPT !.pc = "done", !.cause = cause]
    ELSE Fail(f, ErrorResp(HTTP_INTERNAL, msg), cause)

\* line 39: G = ox.graph_from_point(...) returns a graph or raises
GraphFromPoint(t, graphs) ==
    /\ thread[t].pc = "lg_download"
    /\ \/ /\ \E g \in graphs :
                G' = [id |-> nbuilds, stage |-> "downloaded", nodes |-> g.nodes,
                      edges |-> g.edges, more |-> g.more]
          /\ thread' = [thread EXCEPT ![t].pc = "lg_add_lengths"]
          /\ UNCHANGED << graph_lock, failed >>
       \/ /\ thread' = [thread EXCEPT ![t] = Raised(@, "graph_from_point failed", "graph_unavailable")]
          /\ graph_lock' = LockAfterRaise(t)
          /\ failed' = failed \cup {nbuilds}
          /\ G' = G
    /\ UNCHANGED << nbuilds, returned >>

\* lines 41-42: G = ox.add_edge_lengths(G) returns G with its lengths or raises
AddEdgeLengths(t) ==
    /\ thread[t].pc = "lg_add_lengths"
    /\ \/ /\ G' = [G EXCEPT !.stage = "lengths"]
          /\ thread' = [thread EXCEPT ![t].pc = "lg_return"]
          /\ UNCHANGED << graph_lock, failed >>
       \/ /\ thread' = [thread EXCEPT ![t] = Raised(@, "add_edge_lengths failed", "graph_unavailable")]
          /\ graph_lock' = LockAfterRaise(t)
          /\ failed' = failed \cup {nbuilds}
          /\ G' = G
    /\ UNCHANGED << nbuilds, returned >>

\* line 43: return G, releasing the lock; the caller goes on:
\*   route_api (169)        keeps it as Glocal and calls nearest_node (170)
\*   nearest_node (47)      looks up the nearest node in it
\*   route_coords_from_nodes (60) reads the coordinates; route_api answers
\*   the warm-up thread     ends
Return(t) ==
    /\ thread[t].pc = "lg_return"
    /\ graph_lock' = {}
    /\ returned' = returned \cup {G.id}
    /\ LET f == thread[t]
       IN  thread' = [thread EXCEPT ![t] =
               CASE f.site = "route_api" -> Call([f EXCEPT !.Glocal = G], "nearest_src")
                 [] f.site \in {"nearest_src", "nearest_tgt"} ->
                        [f EXCEPT !.pc = "nearest_nodes", !.Gcallee = G]
                 [] f.site = "route_coords" ->
                        [f EXCEPT !.pc = "done",
                                  !.resp = OkResp(f.total_m, compute_eta_seconds(f.total_m),
                                                  route_coords_from_nodes(G, f.route_nodes))]
                 [] OTHER -> [f EXCEPT !.pc = "done"]]
    /\ UNCHANGED << G, nbuilds, failed >>

\* line 49, for lines 170 and 171: ox.distance.nearest_nodes returns a nearest
\* node or raises (its index needs an optional package)
NearestNode(t) ==
    /\ thread[t].pc = "nearest_nodes"
    /\ LET f == thread[t]
       IN  \/ \E n \in NearestNodes(f.Gcallee,
                                    IF f.site = "nearest_src" THEN f.args.s_lat ELSE f.args.e_lat,
                                    IF f.site = "nearest_src" THEN f.args.s_lon ELSE f.args.e_lon) :
                  thread' = [thread EXCEPT ![t] =
                      IF f.site = "nearest_src"
                      THEN Call([f EXCEPT !.src = n], "nearest_tgt")
                      ELSE [f EXCEPT !.tgt = n, !.pc = "shortest_path"]]
           \/ thread' = [thread EXCEPT ![t] = Fail(f, ErrorResp(HTTP_INTERNAL, "nearest_nodes failed"), "internal")]
    /\ UNCHANGED << G, graph_lock, nbuilds, failed, returned >>

\* lines 173-177: the route, its length, then route_coords_from_nodes;
\* nx.NetworkXNoPath is answered 404 (line 183)
ShortestPath(t) ==
    /\ thread[t].pc = "shortest_path"
    /\ LET f == thread[t]
       IN  \/ /\ ~HasPath(f.Glocal, f.src, f.tgt)
              /\ thread' = [thread EXCEPT ![t] =
                     Fail(f, NoPathResp, "no_path")]
           \/ /\ HasPath(f.Glocal, f.src, f.tgt)
              /\ \E p \in ShortestPaths(f.Glocal, f.src, f.tgt) :
                     thread' = [thread EXCEPT ![t] =
                         Call([f EXCEPT !.route_nodes = p,
                                        !.total_m = ShortestPathLength(f.Glocal, f.src, f.tgt)],
                              "route_coords")]
    /\ UNCHANGED << G, graph_lock, nbuilds, failed, returned >>

Step(t, graphs, starts, ends) ==
    \/ Start(t, starts, ends)
    \/ ValidateArgs(t)
    \/ Acquire(t)
    \/ GraphFromPoint(t, graphs)
    \/ AddEdgeLengths(t)
    \/ Return(t)
    \/ NearestNode(t)
    \/ ShortestPath(t)

\* ---------------------------------------------------------- specifications
Str(a, b) == << a, ",", b >>

\* the corners; the concurrent runs query from A to A and from A to C
CornerA == Str("0", "0")
CornerC == Str("1", "1")
Corners == {Str(a, b) : a \in Digits, b \in Digits}

\* the warm-up thread and NumRequests requests against the scenario graphs
Init == InitOf(Threads)
Next == \E t \in Threads : Step(t, ProviderGraphs, {CornerA}, {CornerA, CornerC})
Spec == Init /\ [][Next]_vars

\* the warm-up thread and one request under fair scheduling (a thread that
\* can run is eventually run), on the split graph with queries at A and C
FairThreads == {WarmupThread, 1}
InitFair == InitOf(FairThreads)
NextFair == \E t \in FairThreads : Step(t, {SplitGraph}, {CornerA}, {CornerA, CornerC})
FairSpec == InitFair /\ [][NextFair]_vars /\ WF_vars(NextFair)

\* one request from any corner to any corner, every graph of the routing family
InitRoute == InitOf({1})
NextRoute == Step(1, RouteGraphs, Corners, Corners)
SpecRoute == InitRoute /\ [][NextRoute]_vars

\* one request, every query string up to MaxStrLen
InitParse == InitOf({1})
NextParse == Step(1, ProviderGraphs, StringsUpTo(MaxStrLen), StringsUpTo(MaxStrLen))
SpecParse == InitParse /\ [][NextParse]_vars

\* ================================================================== claims
InLoadGraph(t) == thread[t].pc \in {"lg_acquire", "lg_download", "lg_add_lengths", "lg_return"}
Building == {t \in Threads : thread[t].pc \in {"lg_download", "lg_add_lengths"}}
Done(t) == thread[t].pc = "done"

\* ---- C1
\* C1 as stated: of the threads that call load_graph while G is empty exactly
\* one ever runs the provider build, at most one build is in flight, whoever
\* is in load_graph without the lock waits for it, and every call returns
\* the same graph instance.
C1_ExactlyOneBuild ==
    /\ nbuilds <= 1
    /\ Cardinality(Building) <= 1
    /\ \A t \in Threads : InLoadGraph(t) /\ t \notin graph_lock => thread[t].pc = "lg_acquire"
    /\ Cardinality(returned) <= 1

\* C1 amended: at most one build is in flight at any moment and its thread
\* holds graph_lock; a build attempt starts only when every earlier attempt
\* has raised, so exactly one runs unless one raises; whoever is in
\* load_graph without the lock waits for it; every call that returns,
\* returns the same graph instance, the one held in G.
C1_SingleFlight ==
    /\ Cardinality(Building) <= 1
    /\ Cardinality(graph_lock) <= 1
    /\ Building \subseteq graph_lock
    /\ nbuilds <= Cardinality(failed) + 1
    /\ Building # {} => Cardinality(failed) = nbuilds - 1
    /\ \A t \in Threads : InLoadGraph(t) /\ t \notin graph_lock => thread[t].pc = "lg_acquire"
    /\ Cardinality(returned) <= 1
    /\ returned # {} => G # None /\ returned = {G.id}
    /\ \A t \in Threads :
          /\ thread[t].Glocal # None => thread[t].Glocal.id \in returned
          /\ thread[t].Gcallee # None => thread[t].Gcallee.id \in returned

\* the first build is done and about to be returned while every other
\* thread, having called load_graph when G was empty, waits for the lock
C1_Witness ==
    \E t \in Threads :
        /\ thread[t].pc = "lg_return"
        /\ nbuilds = 1
        /\ G.stage = "lengths"
        /\ \A u \in Threads \ {t} :
              thread[u].pc = "lg_acquire" /\ thread[u].ncalls = 1 /\ ~thread[u].builtAtCall

\* ---- C2
\* C2: a build attempt that raised in either step leaves no graph of its own
\* behind: G is not a graph of a failed attempt and no load_graph call
\* returns one.
C2_FailedBuildLeavesNothing ==
    /\ G # None => G.id \notin failed
    /\ returned \cap failed = {}

\* ---- C3
\* every walk of at most Cardinality(nodes) nodes from s to t along edges of g
Walks(g, s, t) ==
    {w \in UNION {[1 .. k -> g.nodes] : k \in 1 .. Cardinality(g.nodes)} :
        /\ w[1] = s
        /\ w[Len(w)] = t
        /\ \A i \in 1 .. Len(w) - 1 : \E e \in g.edges : e.u = w[i] /\ e.v = w[i + 1]}

LeastLength(g, u, v) ==
    LET ls == {e.length : e \in {d \in g.edges : d.u = u /\ d.v = v}}
    IN  CHOOSE l \in ls : \A m \in ls : l <= m

RECURSIVE WalkLength(_, _)
WalkLength(g, w) ==
    IF Len(w) <= 1 THEN 0
    ELSE LeastLength(g, w[1], w[2]) + WalkLength(g, Tail(w))

RouteComputed(t) ==
    thread[t].route_nodes # << >> /\ thread[t].Glocal.stage = "lengths"

\* C3: on a graph with its (positive) edge lengths, the route of a /route
\* request is a path of the graph from src to tgt, its total is the sum of
\* the lengths of the edges along that route and at most the length of every
\* src-to-tgt path; a connected pair is never answered "no path"; on the
\* scenario graph the route from A to C is [A, B, C] of length 2.
C3_ShortestRoute ==
    \A t \in Threads :
        LET f == thread[t]
        IN  /\ RouteComputed(t) =>
                /\ f.route_nodes \in Walks(f.Glocal, f.src, f.tgt)
                /\ f.total_m = WalkLength(f.Glocal, f.route_nodes)
                /\ \A w \in Walks(f.Glocal, f.src, f.tgt) : f.total_m <= WalkLength(f.Glocal, w)
                /\ Done(t) => f.resp.status = HTTP_OK /\ f.resp.distance_km = Frac(f.total_m, 1000)
                /\ (f.Glocal.edges = ExampleGraph.edges /\ f.src = 1 /\ f.tgt = 3) =>
                       f.route_nodes = << 1, 2, 3 >> /\ f.total_m = 2
            /\ (f.cause = "no_path" /\ f.Glocal.stage = "lengths") =>
                   Walks(f.Glocal, f.src, f.tgt) = {}

\* the scenario: A to C answered with [A, B, C]
C3_Witness ==
    \E t \in Threads :
        /\ Done(t)
        /\ thread[t].Glocal.stage = "lengths"
        /\ thread[t].Glocal.edges = ExampleGraph.edges
        /\ thread[t].route_nodes = << 1, 2, 3 >>
        /\ thread[t].resp.status = HTTP_OK

\* ---- C4
\* the nodes a walk from s reaches in g
RECURSIVE ReachFrom(_, _)
ReachFrom(g, S) ==
    LET T == S \cup {e.v : e \in {d \in g.edges : d.u \in S}}
    IN  IF T = S THEN S ELSE ReachFrom(g, T)

Resolved(t) ==
    thread[t].tgt # 0 /\ thread[t].pc # "shortest_path"

\* C4: a request whose start and end resolve to nodes with no path from the
\* first to the second is answered 404 with an error message and no route:
\* never a success, never a crash.
C4_NoPathIs404 ==
    \A t \in Threads :
        LET f == thread[t]
        IN  (Resolved(t) /\ f.tgt \notin ReachFrom(f.Glocal, {f.src})) =>
                /\ Done(t)
                /\ f.resp.status = HTTP_NOT_FOUND
                /\ f.resp.error # ""
                /\ f.resp.route_coords = << >>
                /\ f.route_nodes = << >>

\* the split graph: from a node of one component to a node of the other
C4_Witness ==
    \E t \in Threads :
        /\ Done(t)
        /\ thread[t].Glocal.edges = SplitGraph.edges
        /\ thread[t].src = 1
        /\ thread[t].tgt = 3
        /\ thread[t].resp.status = HTTP_NOT_FOUND

\* ---- C5
\* blanks, a run of digits, blanks
PaddedNumber(p) ==
    \E lo \in 1 .. Len(p), hi \in 1 .. Len(p) :
        /\ lo <= hi
        /\ \A k \in 1 .. Len(p) :
              IF lo <= k /\ k <= hi THEN p[k] \in Digits ELSE p[k] = " "

\* exactly two comma-separated floats
TwoFloats(s) ==
    \E i \in 1 .. Len(s) :
        /\ s[i] = ","
        /\ \A j \in 1 .. Len(s) : s[j] = "," => j = i
        /\ PaddedNumber(SubSeq(s, 1, i - 1))
        /\ PaddedNumber(SubSeq(s, i + 1, Len(s)))

Malformed(req) == ~TwoFloats(req.start) \/ ~TwoFloats(req.end)

\* C5: a request whose start or end is missing, empty or not exactly two
\* comma-separated floats is answered 400 without a call of load_graph: no
\* build, graph_lock not taken, G as it was.
C5_MalformedRejectedFirst ==
    \A t \in Threads :
        LET f == thread[t]
        IN  (f.pc \notin {"off", "start", "route_api"} /\ Malformed(f.req)) =>
                /\ Done(t)
                /\ f.resp.status = HTTP_BAD_REQUEST
                /\ f.resp.error # ""
                /\ f.ncalls = 0
                /\ G = None /\ graph_lock = {} /\ nbuilds = 0

\* a start that splits in two but whose second piece is no float
C5_Witness ==
    \E t \in Threads :
        /\ Done(t)
        /\ thread[t].req.start = << "1", ",", "x" >>
        /\ thread[t].req.end = << "1", ",", "1" >>
        /\ thread[t].resp.status = HTTP_BAD_REQUEST

\* ---- C6
\* C6: a request whose start and end resolve to the same node x succeeds
\* with the one coordinate of x, distance 0 and ETA 0; the ETA of a success
\* is 0 for a total of 0 and total / DEFAULT_SPEED_MPS > 0 for a total > 0.
C6_SameNodeAndEta ==
    \A t \in Threads :
        LET f == thread[t]
        IN  /\ (Done(t) /\ f.tgt # 0 /\ f.src = f.tgt) =>
                /\ f.resp.status = HTTP_OK
                /\ f.resp.route_coords = << << Pos(f.src).y, Pos(f.src).x >> >>
                /\ f.resp.distance_km.num = 0
                /\ f.resp.eta_min.num = 0
            /\ (Done(t) /\ f.resp.status = HTTP_OK) =>
                /\ f.total_m = 0 => f.resp.eta_min.num = 0
                /\ f.total_m > 0 =>
                      /\ f.resp.eta_min.num > 0
                      \* eta_min = (total_m / (SPEED_NUM / SPEED_DEN)) / 60
                      /\ f.resp.eta_min.num * SPEED_NUM * 60 = f.total_m * SPEED_DEN * f.resp.eta_min.den

C6_Witness ==
    \E t \in Threads :
        /\ Done(t)
        /\ thread[t].src = 2
        /\ thread[t].tgt = 2
        /\ thread[t].resp.status = HTTP_OK
        /\ Len(thread[t].resp.route_coords) = 1

\* ---- C7
\* the machine-readable part of an error response: its HTTP status (the body
\* holds only the message, "error")
Kind(resp) == resp.status

\* C7: two requests that failed for different causes (malformed input, graph
\* not built, no path, another internal failure) are answered with
\* different kinds.
C7_DistinctKinds ==
    \A t \in RequestThreads, u \in RequestThreads :
        (Done(t) /\ Done(u) /\ thread[t].cause # "" /\ thread[u].cause # ""
            /\ thread[t].cause # thread[u].cause) =>
                Kind(thread[t].resp) # Kind(thread[u].resp)

\* ---- C8
\* C8: a graph with more nodes than MAX_GRAPH_NODES is never stored in G and
\* never returned by load_graph.
C8_CeilingEnforced ==
    /\ G # None => NodeCount(G) <= MAX_GRAPH_NODES
    /\ \A t \in Threads :
          /\ thread[t].Glocal # None => NodeCount(thread[t].Glocal) <= MAX_GRAPH_NODES
          /\ thread[t].Gcallee # None => NodeCount(thread[t].Gcallee) <= MAX_GRAPH_NODES

\* ---- C9
\* C9: a load_graph call that began when the build had completed and G was
\* set never holds graph_lock.
C9_ReadersTakeNoLock ==
    \A t \in Threads : thread[t].builtAtCall => t \notin graph_lock

\* ---- C10
LockHeldInside ==
    /\ Cardinality(graph_lock) <= 1
    /\ \A t \in graph_lock : thread[t].pc \in {"lg_download", "lg_add_lengths", "lg_return"}

\* C10: graph_lock is held only by a thread inside load_graph past its
\* acquisition (so it is released on every exit, also one that raises, and
\* never taken twice by one thread); under fair scheduling every load_graph
\* call ends and every /route request is answered.
C10_LockReleasedAndProgress ==
    /\ [](LockHeldInside)
    /\ \A t \in FairThreads : InLoadGraph(t) ~> ~InLoadGraph(t)
    /\ \A t \in FairThreads \ {WarmupThread} :
          (thread[t].pc = "route_api") ~> (Done(t) /\ thread[t].resp.status # 0)

\* a build has raised and a later request has been answered with a route
C10_Witness ==
    /\ failed # {}
    /\ graph_lock = {}
    /\ \E t \in RequestThreads : Done(t) /\ thread[t].resp.status = HTTP_OK

====
